---------------------------- MODULE Spec2Model ----------------------------
(***************************************************************************)
(* A model of flutter_gen_logo.py: the per-pixel image transforms          *)
(* (detect_edge_color, remove_background_by_color,                         *)
(* remove_background_hybrid, adjust_brightness, resize_image) and the      *)
(* stage sequence of main().                                               *)
(*                                                                         *)
(* A raster is a record [mode, w, h, px]: px is the row-major sequence of  *)
(* pixels, pixel (x, y) at index y * w + x + 1.  A pixel of an "RGBA"      *)
(* raster is <<r, g, b, a>>, a pixel of an "RGB" raster is <<r, g, b>>.    *)
(***************************************************************************)
EXTENDS Integers, Sequences, FiniteSets, TLC

VARIABLES
    fn_op,      \* which function was applied ("init" before any)
    fn_in,      \* the input the function is applied to
    fn_arg,     \* the other arguments of the call
    fn_out,     \* what the call returned
    pc,         \* main(): the statement about to run
    source,     \* the raster the input file decodes to
    heap,       \* the Image objects created so far, by reference
    img,        \* main()'s img: a reference into heap (0: unbound)
    light_img,  \* main()'s light_img
    dark_img,   \* main()'s dark_img
    files,      \* the three destination paths
    tools,      \* the flutter commands run so far
    args,       \* the command-line arguments main() has read so far
    hist,       \* the stages reached so far, each with its outcome
    pre,        \* the raster img referred to when the last stage began
    base,       \* the raster resize_image returned
    rembg_calls \* how often the segmentation model was called

fn_vars == <<fn_op, fn_in, fn_arg, fn_out>>

main_vars == <<pc, source, heap, img, light_img, dark_img, files, tools,
               args, hist, pre, base, rembg_calls>>

vars == <<fn_op, fn_in, fn_arg, fn_out, pc, source, heap, img, light_img,
          dark_img, files, tools, args, hist, pre, base, rembg_calls>>

---------------------------------------------------------------------------
(* Bounds of the model. *)

\* Largest raster width and height of the pixel-transform inputs.
MaxW == 2
MaxH == 2

(* Program constants. *)
DefaultSampleSize == 5
DefaultTolerance == 30

\* Python's None, as the empty tuple.
None == <<>>

---------------------------------------------------------------------------
(* Arithmetic helpers. *)

Max(a, b) == IF a >= b THEN a ELSE b
Min(a, b) == IF a <= b THEN a ELSE b
Abs(a) == IF a >= 0 THEN a ELSE -a

RECURSIVE Pow2(_)
Pow2(n) == IF n = 0 THEN 1 ELSE 2 * Pow2(n - 1)

RECURSIVE Pow2Mod(_, _)
Pow2Mod(n, d) == IF n = 0 THEN 1 % d ELSE (2 * Pow2Mod(n - 1, d)) % d

RECURSIVE FloorLog2(_)
FloorLog2(k) == IF k <= 1 THEN 0 ELSE 1 + FloorLog2(k \div 2)

IsPow2(k) == Pow2(FloorLog2(k)) = k

\* The binary exponent a of e / d: 2^a <= e / d < 2^(a+1), for e, d > 0.
RECURSIVE ExpUp(_, _)
ExpUp(e, d) == IF 2 * d <= e THEN 1 + ExpUp(e, 2 * d) ELSE 0
RECURSIVE ExpDown(_, _)
ExpDown(e, d) == IF e < d THEN 1 + ExpDown(2 * e, d) ELSE 0
FloorLog2Ratio(e, d) == IF e >= d THEN ExpUp(e, d) ELSE 0 - ExpDown(e, d)

(***************************************************************************)
(* int(w * (e / d)) as Python computes it in IEEE-754 binary64, for        *)
(* integers w >= 0, e >= 0, d > 0 small enough that w * e is far below     *)
(* 2^52.  The quotient e / d is rounded to 53 bits, the product is rounded *)
(* again, and int() truncates.  When w * e / d is no integer the two       *)
(* roundings cannot reach the next integer and the result is the exact     *)
(* floor.  When it is an integer k, the result is k - 1 exactly when the   *)
(* quotient was rounded down (remainder R of e * 2^(52-a) by d with        *)
(* 0 < 2R < d) and the product's error w * (R / d) * 2^(a-52) exceeds half *)
(* the spacing of the doubles just below k.                                *)
(***************************************************************************)
FloatMulDivTrunc(w, e, d) ==
    LET n == w * e
        k == n \div d
    IN  IF n % d # 0 \/ k = 0 THEN k
        ELSE LET a  == FloorLog2Ratio(e, d)
                 R  == ((e % d) * Pow2Mod(52 - a, d)) % d
                 b  == FloorLog2(k)
                 sh == a - b + (IF IsPow2(k) THEN 2 ELSE 1)
                 lost == IF sh >= 0 THEN w * R * Pow2(sh) > d
                                    ELSE w * R > d * Pow2(0 - sh)
             IN  IF 0 < 2 * R /\ 2 * R < d /\ lost THEN k - 1 ELSE k

---------------------------------------------------------------------------
(* Rasters. *)

NPix(image) == image.w * image.h
PixelAt(image, x, y) == image.px[y * image.w + x + 1]
RGBOf(p) == <<p[1], p[2], p[3]>>

\* Image.convert('RGBA'): an RGB pixel becomes opaque.
convert_RGBA(image) ==
    IF image.mode = "RGBA" THEN image
    ELSE [image EXCEPT !.mode = "RGBA",
                     !.px = [i \in DOMAIN image.px |->
                               <<image.px[i][1], image.px[i][2], image.px[i][3], 255>>]]

\* range(0, n, step) as a sequence.
RangeSeq(n, step) == [i \in 1..((n + step - 1) \div step) |-> (i - 1) * step]

\* A variant of the sampling that walks one whole edge after the other: top,
\* bottom, left, right.
EdgeSamplesWholeEdges(image, sample_size) ==
    LET xs == RangeSeq(image.w, Max(1, image.w \div sample_size))
        ys == RangeSeq(image.h, Max(1, image.h \div sample_size))
        top    == [j \in 1..Len(xs) |-> RGBOf(PixelAt(image, xs[j], 0))]
        bottom == [j \in 1..Len(xs) |-> RGBOf(PixelAt(image, xs[j], image.h - 1))]
        left   == [j \in 1..Len(ys) |-> RGBOf(PixelAt(image, 0, ys[j]))]
        right  == [j \in 1..Len(ys) |-> RGBOf(PixelAt(image, image.w - 1, ys[j]))]
    IN  top \o bottom \o left \o right

\* The border samples in the order the two loops append them.
EdgeSamples(image, sample_size) ==
    LET xs == RangeSeq(image.w, Max(1, image.w \div sample_size))
        ys == RangeSeq(image.h, Max(1, image.h \div sample_size))
        horiz == [j \in 1..(2 * Len(xs)) |->
                    IF j % 2 = 1
                    THEN RGBOf(PixelAt(image, xs[(j + 1) \div 2], 0))
                    ELSE RGBOf(PixelAt(image, xs[j \div 2], image.h - 1))]
        vert  == [j \in 1..(2 * Len(ys)) |->
                    IF j % 2 = 1
                    THEN RGBOf(PixelAt(image, 0, ys[(j + 1) \div 2]))
                    ELSE RGBOf(PixelAt(image, image.w - 1, ys[j \div 2]))]
    IN  horiz \o vert

CountOf(c, s) == Cardinality({i \in DOMAIN s : s[i] = c})

\* Counter(edge_colors).most_common(1)[0][0]: the largest count, and among
\* equal counts the colour inserted first.
MostCommon(s) ==
    LET i == CHOOSE i \in DOMAIN s :
                 /\ \A j \in DOMAIN s : CountOf(s[j], s) <= CountOf(s[i], s)
                 /\ \A j \in 1..(i - 1) : CountOf(s[j], s) < CountOf(s[i], s)
    IN  s[i]

detect_edge_color(image, sample_size) ==
    MostCommon(EdgeSamples(convert_RGBA(image), sample_size))

\* A variant of the similarity test that compares the Euclidean distance.
SimilarEuclidean(p, bg_color, tolerance) ==
    (p[1] - bg_color[1]) * (p[1] - bg_color[1])
      + (p[2] - bg_color[2]) * (p[2] - bg_color[2])
      + (p[3] - bg_color[3]) * (p[3] - bg_color[3]) <= tolerance * tolerance

\* The test of lines 127-129 and 174-176.
SimilarToBackground(p, bg_color, tolerance) ==
    /\ Abs(p[1] - bg_color[1]) <= tolerance
    /\ Abs(p[2] - bg_color[2]) <= tolerance
    /\ Abs(p[3] - bg_color[3]) <= tolerance

\* The loop of remove_background_by_color after its first k pixels.
color_loop(image, bg_color, tolerance, k) ==
    [image EXCEPT !.px = [i \in DOMAIN image.px |->
        IF i <= k /\ SimilarToBackground(image.px[i], bg_color, tolerance)
        THEN <<image.px[i][1], image.px[i][2], image.px[i][3], 0>>
        ELSE image.px[i]]]

remove_background_by_color(image, bg_color, tolerance) ==
    LET im == convert_RGBA(image)
        bg == IF bg_color = None THEN detect_edge_color(im, DefaultSampleSize)
              ELSE bg_color
    IN  color_loop(im, bg, tolerance, NPix(im))

\* A variant of the hybrid rule whose lower threshold is inclusive.
HybridPixelInclusive(p, rembg_alpha, bg_color, tolerance) ==
    IF rembg_alpha <= 10 THEN <<p[1], p[2], p[3], 0>>
    ELSE IF rembg_alpha > 245
         THEN IF SimilarToBackground(p, bg_color, tolerance)
              THEN <<p[1], p[2], p[3], 0>>
              ELSE <<p[1], p[2], p[3], 255>>
         ELSE <<p[1], p[2], p[3], rembg_alpha>>

\* One pixel of the hybrid loop: original pixel p, rembg's alpha.
HybridPixel(p, rembg_alpha, bg_color, tolerance) ==
    IF rembg_alpha < 10 THEN <<p[1], p[2], p[3], 0>>
    ELSE IF rembg_alpha > 245
         THEN IF SimilarToBackground(p, bg_color, tolerance)
              THEN <<p[1], p[2], p[3], 0>>
              ELSE <<p[1], p[2], p[3], 255>>
         ELSE <<p[1], p[2], p[3], rembg_alpha>>

\* remove_background_hybrid, with the result of remove(image) as rembg_result.
remove_background_hybrid(image, rembg_result, tolerance) ==
    LET im == convert_RGBA(image)
        bg_color == detect_edge_color(im, DefaultSampleSize)
    IN  [im EXCEPT !.px = [i \in DOMAIN im.px |->
            HybridPixel(im.px[i], rembg_result.px[i][4], bg_color, tolerance)]]

---------------------------------------------------------------------------
(* Brightness.  A float argument is a pair <<n, d>>: the double nearest to *)
(* n / d, which is what float("0.9") and 9 / 10 both give.                 *)

\* int(min(255, max(0, c * factor))) for a channel c in 0..255.
BrightChannel(c, factor) ==
    IF factor[1] <= 0 THEN 0
    ELSE Min(255, FloatMulDivTrunc(c, factor[1], factor[2]))

\* A variant of the loop body that also scales fully transparent pixels.
AdjustPixelUnguarded(p, factor) ==
    <<BrightChannel(p[1], factor), BrightChannel(p[2], factor),
      BrightChannel(p[3], factor), p[4]>>

\* The loop body of adjust_brightness.
AdjustPixel(p, factor) ==
    IF p[4] > 0
    THEN <<BrightChannel(p[1], factor), BrightChannel(p[2], factor),
           BrightChannel(p[3], factor), p[4]>>
    ELSE p

\* The loop of adjust_brightness after its first k pixels.
adjust_loop(image, factor, k) ==
    [image EXCEPT !.px = [i \in DOMAIN image.px |->
        IF i <= k THEN AdjustPixel(image.px[i], factor) ELSE image.px[i]]]

adjust_brightness(image, factor) ==
    LET im == convert_RGBA(image)
    IN  adjust_loop(im, factor, NPix(im))

---------------------------------------------------------------------------
(* The geometry of resize_image. *)

\* int(x * (n / d)) for an integer x of either sign, n >= 0, d > 0.
IntMulDiv(x, n, d) ==
    IF x >= 0 THEN FloatMulDivTrunc(x, n, d) ELSE 0 - FloatMulDivTrunc(0 - x, n, d)

\* A variant that reserves the padding on one side only.
EffectiveSizeOneSide(target_size, padding_pixels) == target_size - padding_pixels

\* Line 253.
EffectiveSize(target_size, padding_pixels) == target_size - (padding_pixels * 2)

\* int(side * min(effective_size / width, effective_size / height)): the
\* minimum of the two quotients is the quotient by the larger side when
\* effective_size is positive and by the smaller side when it is negative.
ScaledSide(side, effective_size, width, height) ==
    IF effective_size > 0
    THEN FloatMulDivTrunc(side, effective_size, Max(width, height))
    ELSE IF effective_size = 0 THEN 0
    ELSE 0 - FloatMulDivTrunc(side, 0 - effective_size, Min(width, height))

\* Lines 249-271 without the pixels: the sizes and offsets, and whether
\* Image.resize accepts the size (it raises ValueError unless both are >= 1).
resize_geometry(width, height, target_size, padding_ratio) ==
    LET padding_pixels == IntMulDiv(target_size, padding_ratio[1], padding_ratio[2])
        effective_size == EffectiveSize(target_size, padding_pixels)
        new_width == ScaledSide(width, effective_size, width, height)
        new_height == ScaledSide(height, effective_size, width, height)
    IN  IF new_width < 1 \/ new_height < 1
        THEN [ok |-> FALSE, error |-> "ValueError",
              padding_pixels |-> padding_pixels, effective_size |-> effective_size,
              new_width |-> new_width, new_height |-> new_height]
        ELSE [ok |-> TRUE, w |-> target_size, h |-> target_size,
              padding_pixels |-> padding_pixels, effective_size |-> effective_size,
              new_width |-> new_width, new_height |-> new_height,
              x_offset |-> (target_size - new_width) \div 2,
              y_offset |-> (target_size - new_height) \div 2]

---------------------------------------------------------------------------
(* Trimming, alpha matting and canvas composition on rasters. *)

\* Image.getbbox() of the alpha band: the bounding box <<left, upper,
\* right, lower>> of the pixels whose alpha is not 0, or None.
AlphaBBox(image) ==
    LET xs == {x \in 0..(image.w - 1) :
                  \E y \in 0..(image.h - 1) : PixelAt(image, x, y)[4] # 0}
        ys == {y \in 0..(image.h - 1) :
                  \E x \in 0..(image.w - 1) : PixelAt(image, x, y)[4] # 0}
        lo(S) == CHOOSE v \in S : \A u \in S : v <= u
        hi(S) == CHOOSE v \in S : \A u \in S : v >= u
    IN  IF xs = {} THEN None
        ELSE <<lo(xs), lo(ys), hi(xs) + 1, hi(ys) + 1>>

\* Image.crop(bbox) for a box inside the raster.
Crop(image, bbox) ==
    LET cw == bbox[3] - bbox[1]
        ch == bbox[4] - bbox[2]
    IN  [mode |-> image.mode, w |-> cw, h |-> ch,
         px |-> [i \in 1..(cw * ch) |->
                   PixelAt(image, bbox[1] + ((i - 1) % cw), bbox[2] + ((i - 1) \div cw))]]

\* Line 222: the default of the threshold argument.
DefaultThreshold == 10

\* trim_transparent_borders: the threshold argument is never read.
trim_transparent_borders(image, threshold) ==
    LET im == convert_RGBA(image)
        bbox == AlphaBBox(im)
    IN  IF bbox # None THEN Crop(im, bbox) ELSE im

\* A single-band raster as a function of the clamped coordinates.
Clamp(v, lo, hi) == IF v < lo THEN lo ELSE IF v > hi THEN hi ELSE v
BandAt(band, w, h, x, y) == band[Clamp(y, 0, h - 1) * w + Clamp(x, 0, w - 1) + 1]

\* One box-blur output value of Pillow's GaussianBlur(radius=1): three
\* passes per axis of the kernel (fw, ww, fw) / 2^24 with ww = 11184810 and
\* fw = 2796203 = 682 * 4096 + 2731, applied to centre c and the sum s of
\* the two neighbours: (c * ww + s * fw + 2^23) >> 24, with ww = 4 fw - 2,
\* computed in two steps to stay within 32 bits.
BoxBlurValue(c, s) ==
    LET A == 4 * c + s
        B == 8388608 - 2 * c
    IN  (A * 682 + ((A * 2731 + B) \div 4096)) \div 4096

\* The band f itself, computed once before it is read pixel by pixel.
Computed(f) == IF f = f THEN f ELSE f

BoxBlurX(band, w, h) ==
    LET b == Computed(band)
    IN  [i \in 1..(w * h) |->
            LET x == (i - 1) % w
                y == (i - 1) \div w
            IN  BoxBlurValue(b[i], BandAt(b, w, h, x - 1, y) + BandAt(b, w, h, x + 1, y))]

BoxBlurY(band, w, h) ==
    LET b == Computed(band)
    IN  [i \in 1..(w * h) |->
            LET x == (i - 1) % w
                y == (i - 1) \div w
            IN  BoxBlurValue(b[i], BandAt(b, w, h, x, y - 1) + BandAt(b, w, h, x, y + 1))]

\* ImageFilter.GaussianBlur(radius=1) on one band.
GaussianBlur1(band, w, h) ==
    LET h3 == BoxBlurX(BoxBlurX(BoxBlurX(band, w, h), w, h), w, h)
    IN  BoxBlurY(BoxBlurY(BoxBlurY(h3, w, h), w, h), w, h)

Neighbourhood(band, w, h, i) ==
    {BandAt(band, w, h, ((i - 1) % w) + dx, ((i - 1) \div w) + dy) :
        dx \in {-1, 0, 1}, dy \in {-1, 0, 1}}

\* ImageFilter.MinFilter(3) and MaxFilter(3): the edges are replicated.
MinFilter3(band, w, h) ==
    LET b == Computed(band)
    IN  [i \in 1..(w * h) |->
            CHOOSE v \in Neighbourhood(b, w, h, i) :
                \A u \in Neighbourhood(b, w, h, i) : v <= u]

MaxFilter3(band, w, h) ==
    LET b == Computed(band)
    IN  [i \in 1..(w * h) |->
            CHOOSE v \in Neighbourhood(b, w, h, i) :
                \A u \in Neighbourhood(b, w, h, i) : v >= u]

\* Lines 80-85: the smoothed alpha band.
SmoothedAlpha(image) ==
    LET a == [i \in DOMAIN image.px |-> image.px[i][4]]
        a_smooth == GaussianBlur1(a, image.w, image.h)
        a_eroded == MinFilter3(a_smooth, image.w, image.h)
    IN  MaxFilter3(a_eroded, image.w, image.h)

\* A variant of the blend that also replaces the alphas 10 and 245.
MattePixelInclusive(p, smooth_val) ==
    IF 10 <= p[4] /\ p[4] <= 245 THEN <<p[1], p[2], p[3], smooth_val>> ELSE p

\* Lines 96-104 and 107: the pixel after the blend, its RGB as split off
\* at line 78.
MattePixel(p, smooth_val) ==
    IF 10 < p[4] /\ p[4] < 245 THEN <<p[1], p[2], p[3], smooth_val>> ELSE p

apply_alpha_matting(image) ==
    LET im == convert_RGBA(image)
        smooth == Computed(SmoothedAlpha(im))
    IN  [im EXCEPT !.px = [i \in DOMAIN im.px |-> MattePixel(im.px[i], smooth[i])]]

\* Pillow's rounded a * b / 255 for 8-bit values.
MulDiv255(a, b) ==
    LET tmp == a * b + 128
    IN  ((tmp \div 256) + tmp) \div 256

\* canvas.paste(resized, (x_offset, y_offset), resized) onto a transparent
\* canvas: every band, alpha included, is blended with the pasted pixel's
\* own alpha as the mask.
PasteOnCanvas(resized, target_size, x_offset, y_offset) ==
    [mode |-> "RGBA", w |-> target_size, h |-> target_size,
     px |-> [i \in 1..(target_size * target_size) |->
        LET x == ((i - 1) % target_size) - x_offset
            y == ((i - 1) \div target_size) - y_offset
        IN  IF 0 <= x /\ x < resized.w /\ 0 <= y /\ y < resized.h
            THEN LET p == PixelAt(resized, x, y)
                 IN  <<MulDiv255(p[1], p[4]), MulDiv255(p[2], p[4]),
                       MulDiv255(p[3], p[4]), MulDiv255(p[4], p[4])>>
            ELSE <<0, 0, 0, 0>>]]

\* Image.convert('RGBa') and back, which Image.resize wraps around the
\* resampling of an RGBA image: the colour bands are multiplied by alpha,
\* and afterwards divided by it, cut to a whole number.
Premultiply(p) ==
    <<MulDiv255(p[1], p[4]), MulDiv255(p[2], p[4]), MulDiv255(p[3], p[4]), p[4]>>

Unpremultiply(p) ==
    IF p[4] = 0 \/ p[4] = 255 THEN p
    ELSE <<Min(255, (255 * p[1]) \div p[4]), Min(255, (255 * p[2]) \div p[4]),
           Min(255, (255 * p[3]) \div p[4]), p[4]>>

\* Pillow's fixed-point LANCZOS coefficients (scaled by 2^22) for resampling
\* a line of in_size pixels to out_size pixels: for every output pixel the
\* first input pixel it reads and the weights of that and the following
\* pixels.  A line of one pixel is repeated; the other rows are the
\* normalised values of sinc(x) * sinc(x / 3) at the pixel centres.
LanczosCoeffs(in_size, out_size) ==
    IF in_size = 1
    THEN [xx \in 1..out_size |-> [xmin |-> 0, k |-> <<4194304>>]]
    ELSE CASE in_size = 2 /\ out_size = 1 ->
                << [xmin |-> 0, k |-> <<2097152, 2097152>>] >>
           [] in_size = 2 /\ out_size = 2 ->
                << [xmin |-> 0, k |-> <<4194304, 0>>],
                   [xmin |-> 0, k |-> <<0, 4194304>>] >>
           [] in_size = 2 /\ out_size = 3 ->
                << [xmin |-> 0, k |-> <<4715023, -520719>>],
                   [xmin |-> 0, k |-> <<2097152, 2097152>>],
                   [xmin |-> 0, k |-> <<-520719, 4715023>>] >>
           [] in_size = 2 /\ out_size = 4 ->
                << [xmin |-> 0, k |-> <<4930311, -736007>>],
                   [xmin |-> 0, k |-> <<3217574, 976730>>],
                   [xmin |-> 0, k |-> <<976730, 3217574>>],
                   [xmin |-> 0, k |-> <<-736007, 4930311>>] >>
           [] in_size = 3 /\ out_size = 1 ->
                << [xmin |-> 0, k |-> <<1296896, 1600512, 1296896>>] >>
           [] in_size = 3 /\ out_size = 2 ->
                << [xmin |-> 0, k |-> <<2742406, 1754765, -302866>>],
                   [xmin |-> 0, k |-> <<-302866, 1754765, 2742406>>] >>
           [] in_size = 3 /\ out_size = 3 ->
                << [xmin |-> 0, k |-> <<4194304, 0, 0>>],
                   [xmin |-> 0, k |-> <<0, 4194304, 0>>],
                   [xmin |-> 0, k |-> <<0, 0, 4194304>>] >>
           [] in_size = 3 /\ out_size = 4 ->
                << [xmin |-> 0, k |-> <<4492385, -392563, 94482>>],
                   [xmin |-> 0, k |-> <<1740598, 3039405, -585699>>],
                   [xmin |-> 0, k |-> <<-585699, 3039405, 1740598>>],
                   [xmin |-> 0, k |-> <<94482, -392563, 4492385>>] >>

RECURSIVE WeightedSum(_, _, _, _)
\* The sum of line[xmin + j] * k[j] over the first n weights.
WeightedSum(line, xmin, k, n) ==
    IF n = 0 THEN 0
    ELSE WeightedSum(line, xmin, k, n - 1) + line[xmin + n] * k[n]

\* One resampled line: each value is the weighted sum plus one half, shifted
\* down by 22 bits and clipped to 0..255.
ResampleLine(line, out_size) ==
    LET c == LanczosCoeffs(Len(line), out_size)
    IN  [xx \in 1..out_size |->
            Clamp((2097152 + WeightedSum(line, c[xx].xmin, c[xx].k, Len(c[xx].k)))
                      \div 4194304, 0, 255)]

\* The horizontal pass over one band of a w x h raster, skipped when the
\* width stays.
ResampleHorizontal(band, w, h, new_width) ==
    IF new_width = w THEN band
    ELSE LET b == Computed(band)
             row(y) == ResampleLine([x \in 1..w |-> b[y * w + x]], new_width)
         IN  [i \in 1..(new_width * h) |->
                 row((i - 1) \div new_width)[((i - 1) % new_width) + 1]]

\* The vertical pass, skipped when the height stays.
ResampleVertical(band, w, h, new_height) ==
    IF new_height = h THEN band
    ELSE LET b == Computed(band)
             col(x) == ResampleLine([y \in 1..h |-> b[(y - 1) * w + x + 1]], new_height)
         IN  [i \in 1..(w * new_height) |->
                 col((i - 1) % w)[((i - 1) \div w) + 1]]

\* image.resize((new_width, new_height), LANCZOS) of an RGBA raster: a copy
\* when the size stays; otherwise every band of the premultiplied raster is
\* resampled along the rows, then along the columns.
ImageResize(image, new_width, new_height) ==
    IF new_width = image.w /\ new_height = image.h THEN image
    ELSE LET pm == [i \in DOMAIN image.px |-> Premultiply(image.px[i])]
             out(c) == Computed(ResampleVertical(
                          ResampleHorizontal([i \in DOMAIN pm |-> pm[i][c]],
                                             image.w, image.h, new_width),
                          new_width, image.h, new_height))
             r == out(1)
             g == out(2)
             b == out(3)
             a == out(4)
         IN  [mode |-> "RGBA", w |-> new_width, h |-> new_height,
              px |-> [i \in 1..(new_width * new_height) |->
                        Unpremultiply(<<r[i], g[i], b[i], a[i]>>)]]

\* What resize_image returns for a geometry that Image.resize accepts.
resize_image(image, geometry) ==
    PasteOnCanvas(ImageResize(convert_RGBA(image), geometry.new_width,
                              geometry.new_height),
                  geometry.w, geometry.x_offset, geometry.y_offset)

---------------------------------------------------------------------------
(* Inputs of the pixel transforms. *)

\* Pixels the input rasters are made of: the background white, colours at
\* Chebyshev distance 25, 30 and 31 from it, a far colour, and two
\* partially transparent pixels (one far from white, one near it).
PixelChoices ==
    << <<255, 255, 255, 255>>, <<230, 230, 230, 255>>, <<225, 255, 255, 255>>,
       <<224, 255, 255, 255>>, <<0, 0, 0, 255>>, <<200, 100, 50, 128>>,
       <<250, 250, 250, 77>> >>

NChoices == Len(PixelChoices)

\* The raster of mode m and size w x h whose i-th pixel (from 0) is
\* PixelChoices[(s0 + i * s1) mod NChoices]: every raster of one or two
\* pixels over PixelChoices, and a slice of the larger ones.
PatternRasterOf(choices, m, w, h, s0, s1) ==
    [mode |-> m, w |-> w, h |-> h,
     px |-> [i \in 1..(w * h) |->
               LET p == choices[((s0 + (i - 1) * s1) % Len(choices)) + 1]
               IN  IF m = "RGBA" THEN p ELSE RGBOf(p)]]

PatternRaster(m, w, h, s0, s1) == PatternRasterOf(PixelChoices, m, w, h, s0, s1)

MatteInputs ==
    {PatternRaster(m, w, h, s0, s1) :
        m \in {"RGBA", "RGB"}, w \in 1..MaxW, h \in 1..MaxH,
        s0 \in 0..(NChoices - 1), s1 \in 0..(NChoices - 1)}

Tolerances == {0, DefaultTolerance}
BgColors == {None, <<255, 255, 255>>, <<0, 0, 0>>}

\* Alphas the segmentation model may return, around the two thresholds.
SegAlphas == <<0, 9, 10, 128, 245, 246, 255>>

\* What remove(image) may return: a raster of the same size with the
\* model's alpha and either the input's RGB or black.
RembgResult(image, t0, t1, keep_rgb) ==
    LET im == convert_RGBA(image)
    IN  [im EXCEPT !.px = [i \in DOMAIN im.px |->
            LET a == SegAlphas[((t0 + (i - 1) * t1) % Len(SegAlphas)) + 1]
            IN  IF keep_rgb THEN <<im.px[i][1], im.px[i][2], im.px[i][3], a>>
                ELSE <<0, 0, 0, a>>]]

RembgResults(image) ==
    {RembgResult(image, t0, t1, k) :
        t0 \in 0..(Len(SegAlphas) - 1), t1 \in 0..(Len(SegAlphas) - 1),
        k \in BOOLEAN}

---------------------------------------------------------------------------
(* SpecMatte: the background-removal functions applied to one raster. *)

\* main() is not running while a single function is exercised.
Paths == {"neutral", "light", "dark"}

NoArgs == [mode |-> <<>>, target_size |-> 0, padding |-> 0,
           brightness_light |-> <<>>, brightness_dark |-> <<>>]

MainOff ==
    /\ pc = "off"
    /\ source = None
    /\ heap = <<>>
    /\ img = 0 /\ light_img = 0 /\ dark_img = 0
    /\ files = [p \in Paths |-> [kind |-> "absent"]]
    /\ tools = <<>>
    /\ args = NoArgs
    /\ hist = <<>>
    /\ pre = None
    /\ base = None
    /\ rembg_calls = 0

InitMatte ==
    /\ MainOff
    /\ fn_op = "init"
    /\ fn_in \in MatteInputs
    /\ fn_arg = None
    /\ fn_out = None

CallColor ==
    /\ fn_op = "init"
    /\ \E bg \in BgColors, tol \in Tolerances :
        /\ fn_arg' = [bg_color |-> bg, tolerance |-> tol]
        /\ fn_out' = remove_background_by_color(fn_in, bg, tol)
    /\ fn_op' = "color"
    /\ UNCHANGED <<fn_in, main_vars>>

CallHybrid ==
    /\ fn_op = "init"
    /\ \E seg \in RembgResults(fn_in), tol \in Tolerances :
        /\ fn_arg' = [rembg_result |-> seg, tolerance |-> tol]
        /\ fn_out' = remove_background_hybrid(fn_in, seg, tol)
    /\ fn_op' = "hybrid"
    /\ UNCHANGED <<fn_in, main_vars>>

NextMatte == CallColor \/ CallHybrid

SpecMatte == InitMatte /\ [][NextMatte]_vars

---------------------------------------------------------------------------
(* Claims about the background-removal functions. *)

\* max of the per-channel absolute differences of two colours.
ChebyshevDistance(p, c) ==
    Max(Abs(p[1] - c[1]), Max(Abs(p[2] - c[2]), Abs(p[3] - c[3])))

\* C1: remove_background_hybrid gives every pixel the original's RGB, and
\* alpha 0 when the segmentation alpha is below 10; alpha 0 or 255 when it
\* is above 245, 0 exactly when the original colour is within Chebyshev
\* distance T of the background colour; and the segmentation alpha itself
\* when that lies in 10..245.
C1_HybridRule ==
    fn_op = "hybrid" =>
        LET orig == convert_RGBA(fn_in)
            bg == detect_edge_color(fn_in, DefaultSampleSize)
            T == fn_arg.tolerance
        IN  /\ fn_out.w = orig.w /\ fn_out.h = orig.h
            /\ \A i \in DOMAIN orig.px :
                LET p == orig.px[i]
                    sa == fn_arg.rembg_result.px[i][4]
                    o == fn_out.px[i]
                IN  /\ RGBOf(o) = RGBOf(p)
                    /\ sa < 10 => o[4] = 0
                    /\ sa > 245 =>
                         o[4] = (IF ChebyshevDistance(p, bg) <= T THEN 0 ELSE 255)
                    /\ (10 <= sa /\ sa <= 245) => o[4] = sa

\* A hybrid call where a confident-foreground pixel is overridden by the
\* colour match, an uncertain pixel passes the model's alpha through, and
\* the model's RGB differs from the original's.
C1_Witness ==
    /\ fn_op = "hybrid"
    /\ \E i, j, k \in DOMAIN fn_out.px :
        /\ fn_arg.rembg_result.px[i][4] > 245 /\ fn_out.px[i][4] = 0
        /\ fn_arg.rembg_result.px[j][4] = 10 /\ fn_out.px[j][4] = 10
        /\ RGBOf(fn_arg.rembg_result.px[k]) # RGBOf(fn_out.px[k])

\* C2: remove_background_by_color sets alpha to 0 on every pixel within
\* Chebyshev distance T of the reference colour, keeps the alpha of every
\* other pixel, and keeps every pixel's RGB.
C2_ColorRule ==
    fn_op = "color" =>
        LET orig == convert_RGBA(fn_in)
            C == IF fn_arg.bg_color = None
                 THEN detect_edge_color(fn_in, DefaultSampleSize)
                 ELSE fn_arg.bg_color
            T == fn_arg.tolerance
        IN  /\ fn_out.w = orig.w /\ fn_out.h = orig.h
            /\ \A i \in DOMAIN orig.px :
                LET p == orig.px[i]
                    o == fn_out.px[i]
                IN  /\ RGBOf(o) = RGBOf(p)
                    /\ o[4] = (IF ChebyshevDistance(p, C) <= T THEN 0 ELSE p[4])

\* A colour-only call that clears a pixel at distance exactly T and keeps
\* a partially transparent pixel as it was.
C2_Witness ==
    /\ fn_op = "color"
    /\ fn_arg.tolerance = DefaultTolerance
    /\ fn_arg.bg_color = <<255, 255, 255>>
    /\ \E i, j \in DOMAIN fn_out.px :
        /\ fn_in.mode = "RGBA"
        /\ fn_in.px[i] = <<225, 255, 255, 255>> /\ fn_out.px[i][4] = 0
        /\ fn_in.px[j] = <<200, 100, 50, 128>> /\ fn_out.px[j][4] = 128

---------------------------------------------------------------------------
(* SpecTone: adjust_brightness applied to one raster. *)

\* The spec's example pixel, two pixels whose products with 0.7 fall just
\* below an integer, a partially transparent pixel and a fully transparent
\* pixel with colour.
TonePixelChoices ==
    << <<200, 100, 50, 255>>, <<90, 170, 180, 255>>, <<255, 128, 1, 128>>,
       <<10, 20, 30, 0>>, <<0, 255, 127, 255>> >>

ToneInputs ==
    {PatternRasterOf(TonePixelChoices, m, w, h, s0, s1) :
        m \in {"RGBA", "RGB"}, w \in 1..MaxW, h \in 1..MaxH,
        s0 \in 0..(Len(TonePixelChoices) - 1), s1 \in 0..(Len(TonePixelChoices) - 1)}

Factors ==
    {<<1, 2>>, <<7, 10>>, <<9, 10>>, <<1, 1>>, <<11, 10>>, <<2, 1>>, <<0, 1>>, <<-1, 2>>}

InitTone ==
    /\ MainOff
    /\ fn_op = "init"
    /\ fn_in \in ToneInputs
    /\ fn_arg = None
    /\ fn_out = None

CallBrightness ==
    /\ fn_op = "init"
    /\ \E f \in Factors :
        /\ fn_arg' = [factor |-> f]
        /\ fn_out' = adjust_brightness(fn_in, f)
    /\ fn_op' = "brightness"
    /\ UNCHANGED <<fn_in, main_vars>>

NextTone == CallBrightness

SpecTone == InitTone /\ [][NextTone]_vars

\* C10: adjust_brightness keeps every alpha, leaves pixels of alpha 0
\* untouched, and maps each channel c of a visible pixel to the whole
\* number of c * F clamped to 0..255 (255 above 255, 0 at or below 0,
\* otherwise c * F cut to an integer); F = 1 is the identity, F = 1/2 maps
\* (200,100,50,255) to (100,50,25,255) and F = 2 maps it to
\* (255,200,100,255).
C10_BrightnessRule ==
    fn_op = "brightness" =>
        LET orig == convert_RGBA(fn_in)
            n == fn_arg.factor[1]
            d == fn_arg.factor[2]
        IN  /\ fn_out.w = orig.w /\ fn_out.h = orig.h
            /\ n = d => fn_out = orig
            /\ \A i \in DOMAIN orig.px :
                LET p == orig.px[i]
                    o == fn_out.px[i]
                IN  /\ o[4] = p[4]
                    /\ p[4] = 0 => o = p
                    /\ p[4] > 0 => \A c \in 1..3 :
                        /\ o[c] \in 0..255
                        /\ p[c] * n > 255 * d => o[c] = 255
                        /\ p[c] * n <= 0 => o[c] = 0
                        /\ (0 < p[c] * n /\ p[c] * n <= 255 * d) =>
                              (o[c] * d <= p[c] * n /\ p[c] * n <= (o[c] + 1) * d)
                    /\ (p = <<200, 100, 50, 255>> /\ n = 1 /\ d = 2)
                          => o = <<100, 50, 25, 255>>
                    /\ (p = <<200, 100, 50, 255>> /\ n = 2 /\ d = 1)
                          => o = <<255, 200, 100, 255>>

\* A call with F = 2 that clamps the example pixel's red channel and
\* leaves a coloured, fully transparent pixel as it was.
C10_Witness ==
    /\ fn_op = "brightness"
    /\ fn_arg.factor = <<2, 1>>
    /\ fn_in.mode = "RGBA"
    /\ \E i, j \in DOMAIN fn_out.px :
        /\ fn_in.px[i] = <<200, 100, 50, 255>>
        /\ fn_out.px[i] = <<255, 200, 100, 255>>
        /\ fn_in.px[j] = <<10, 20, 30, 0>>
        /\ fn_out.px[j] = <<10, 20, 30, 0>>

---------------------------------------------------------------------------
(* SpecResize: the geometry of resize_image for one content size. *)

\* Largest content side and largest target size tried (besides the spec's
\* example, a 50 x 50 content on a canvas of 100).
MaxDim == 12
MaxSize == 16

ContentSides == 1..MaxDim \cup {50}
TargetSizes == 1..MaxSize \cup {100}
PaddingRatios ==
    {<<0, 1>>, <<1, 10>>, <<15, 100>>, <<1, 4>>, <<49, 100>>, <<1, 2>>, <<9, 10>>}

InitResize ==
    /\ MainOff
    /\ fn_op = "init"
    /\ fn_in \in [width : ContentSides, height : ContentSides]
    /\ fn_arg = None
    /\ fn_out = None

CallResize ==
    /\ fn_op = "init"
    /\ \E S \in TargetSizes, P \in PaddingRatios :
        /\ fn_arg' = [target_size |-> S, padding_ratio |-> P]
        /\ fn_out' = resize_geometry(fn_in.width, fn_in.height, S, P)
    /\ fn_op' = "resize"
    /\ UNCHANGED <<fn_in, main_vars>>

NextResize == CallResize

SpecResize == InitResize /\ [][NextResize]_vars

\* C8: resize_image returns a raster of exactly S x S for every content of
\* at least 1 x 1, every S >= 1 and every padding ratio in [0, 1), and
\* never fails.
C8_AlwaysSquare ==
    fn_op = "resize" =>
        /\ fn_out.ok
        /\ fn_out.w = fn_arg.target_size
        /\ fn_out.h = fn_arg.target_size

\* C9 as claimed: the longer scaled side equals inner = S * (1 - 2P), and
\* the pasted rectangle lies inside the canvas with at least the padding
\* S * P on every side.
C9_InnerBudgetExact ==
    (fn_op = "resize" /\ fn_out.ok) =>
        LET S == fn_arg.target_size
            pn == fn_arg.padding_ratio[1]
            pd == fn_arg.padding_ratio[2]
        IN  /\ Max(fn_out.new_width, fn_out.new_height) * pd = S * (pd - 2 * pn)
            /\ fn_out.x_offset * pd >= S * pn
            /\ fn_out.y_offset * pd >= S * pn
            /\ (S - fn_out.new_width - fn_out.x_offset) * pd >= S * pn
            /\ (S - fn_out.new_height - fn_out.y_offset) * pd >= S * pn

\* C9 as amended: whenever resize_image returns, the padding is whole
\* pixels, pad = S * P cut to an integer (at most one below its floor);
\* with inner = S - 2 * pad the content is scaled by inner / max(W, H),
\* each side cut to whole pixels, so the longer side is inner or inner - 1;
\* the scaled content is pasted centred, inside the canvas, with at least
\* pad pixels on every side; a 50 x 50 content with S = 100 and P = 0.1
\* occupies the centred 80 x 80 square.
C9_InnerBudgetWholePixels ==
    (fn_op = "resize" /\ fn_out.ok) =>
        LET S == fn_arg.target_size
            pn == fn_arg.padding_ratio[1]
            pd == fn_arg.padding_ratio[2]
            W == fn_in.width
            H == fn_in.height
            long == Max(W, H)
            pad == fn_out.padding_pixels
            inner == S - 2 * pad
            nw == fn_out.new_width
            nh == fn_out.new_height
            right == S - nw - fn_out.x_offset
            below == S - nh - fn_out.y_offset
        IN  /\ pad * pd <= S * pn /\ S * pn <= (pad + 1) * pd
            /\ inner - 1 <= Max(nw, nh) /\ Max(nw, nh) <= inner
            /\ nw * long <= W * inner /\ W * inner <= (nw + 1) * long
            /\ nh * long <= H * inner /\ H * inner <= (nh + 1) * long
            /\ fn_out.x_offset >= pad /\ right >= pad
            /\ fn_out.y_offset >= pad /\ below >= pad
            /\ fn_out.x_offset <= right /\ right <= fn_out.x_offset + 1
            /\ fn_out.y_offset <= below /\ below <= fn_out.y_offset + 1
            /\ (W = 50 /\ H = 50 /\ S = 100 /\ pn = 1 /\ pd = 10) =>
                  (nw = 80 /\ nh = 80 /\ fn_out.x_offset = 10 /\ fn_out.y_offset = 10)

\* The spec's example: a 50 x 50 content on a canvas of 100 with P = 0.1.
C9_Witness ==
    /\ fn_op = "resize"
    /\ fn_in = [width |-> 50, height |-> 50]
    /\ fn_arg = [target_size |-> 100, padding_ratio |-> <<1, 10>>]
    /\ fn_out.ok
    /\ fn_out.new_width = 80 /\ fn_out.x_offset = 10

---------------------------------------------------------------------------
(* SpecEdge: detect_edge_color applied to one raster. *)

\* Largest raster given to detect_edge_color, and the number of its leading
\* pixels that take every combination of colours.
MaxEdgeW == 3
MaxEdgeH == 2
MaxCells == 6

EdgeColours ==
    << <<255, 255, 255, 255>>, <<0, 0, 0, 255>>, <<200, 100, 50, 255>>,
       <<200, 100, 50, 128>> >>

\* The w x h raster whose i-th pixel (from 0) is the colour numbered by the
\* (i mod MaxCells)-th digit of n in base Len(EdgeColours).
EdgeRaster(w, h, n) ==
    [mode |-> "RGBA", w |-> w, h |-> h,
     px |-> [i \in 1..(w * h) |->
               EdgeColours[((n \div (Len(EdgeColours) ^ ((i - 1) % MaxCells)))
                              % Len(EdgeColours)) + 1]]]

EdgeInputs ==
    {EdgeRaster(w, h, n) :
        w \in 1..MaxEdgeW, h \in 1..MaxEdgeH,
        n \in 0..(Len(EdgeColours) ^ MaxCells - 1)}

SampleSizes == {1, DefaultSampleSize}

InitEdge ==
    /\ MainOff
    /\ fn_op = "init"
    /\ fn_in \in EdgeInputs
    /\ fn_arg = None
    /\ fn_out = None

CallDetect ==
    /\ fn_op = "init"
    /\ \E n \in SampleSizes :
        /\ fn_arg' = [sample_size |-> n]
        /\ fn_out' = detect_edge_color(fn_in, n)
    /\ fn_op' = "detect"
    /\ UNCHANGED <<fn_in, main_vars>>

NextEdge == CallDetect

SpecEdge == InitEdge /\ [][NextEdge]_vars

\* The colour of greatest count in s that is first to reach that count:
\* the one whose last occurrence comes earliest.
FirstToReachMax(s) ==
    LET last(c) == CHOOSE i \in DOMAIN s :
                      s[i] = c /\ \A j \in DOMAIN s : s[j] = c => j <= i
        i == CHOOSE i \in DOMAIN s :
                /\ \A j \in DOMAIN s : CountOf(s[j], s) <= CountOf(s[i], s)
                /\ \A j \in DOMAIN s :
                      CountOf(s[j], s) = CountOf(s[i], s) => last(s[i]) <= last(s[j])
    IN  s[i]

\* C12 as stated: the result is the most frequent sampled colour and, among
\* several, the first to reach the greatest count when the top edge is
\* sampled first, then the bottom, the left and the right edge.
C12_FirstToReachMaxWholeEdges ==
    fn_op = "detect" =>
        fn_out = FirstToReachMax(EdgeSamplesWholeEdges(fn_in, fn_arg.sample_size))

\* The sample points with the place each has in the sampling: for the a-th
\* sampled column the top pixel at 2a - 1 and the bottom pixel at 2a, then
\* for the b-th sampled row the left pixel and the right pixel.
SamplePoints(image, sample_size) ==
    LET xstep == Max(1, image.w \div sample_size)
        ystep == Max(1, image.h \div sample_size)
        xs == {x \in 0..(image.w - 1) : x % xstep = 0}
        ys == {y \in 0..(image.h - 1) : y % ystep = 0}
        nx == Cardinality(xs)
    IN  {[at |-> 2 * (x \div xstep) + 1, x |-> x, y |-> 0] : x \in xs}
          \cup {[at |-> 2 * (x \div xstep) + 2, x |-> x, y |-> image.h - 1] : x \in xs}
          \cup {[at |-> 2 * nx + 2 * (y \div ystep) + 1, x |-> 0, y |-> y] : y \in ys}
          \cup {[at |-> 2 * nx + 2 * (y \div ystep) + 2, x |-> image.w - 1, y |-> y] : y \in ys}

\* C12, amended: the result is a sampled colour of greatest count, and every
\* other colour of the same count is first sampled later, where the samples
\* are taken column by column (top pixel, then bottom pixel), then row by
\* row (left pixel, then right pixel).
C12_FirstSampledAmongMostFrequent ==
    fn_op = "detect" =>
        LET pts == SamplePoints(fn_in, fn_arg.sample_size)
            col(p) == RGBOf(PixelAt(fn_in, p.x, p.y))
            count(c) == Cardinality({p \in pts : col(p) = c})
            first(c) == CHOOSE k \in {p.at : p \in pts} :
                           /\ \E p \in pts : p.at = k /\ col(p) = c
                           /\ \A p \in pts : col(p) = c => k <= p.at
        IN  /\ \E p \in pts : col(p) = fn_out
            /\ \A p \in pts : count(col(p)) <= count(fn_out)
            /\ \A p \in pts :
                  (col(p) # fn_out /\ count(col(p)) = count(fn_out))
                      => first(fn_out) < first(col(p))

\* Two colours share the greatest count, the corner pixel's colour has a
\* smaller one, and the result is the colour of the bottom-left pixel,
\* sampled before the second pixel of the top edge.
C12_Witness ==
    /\ fn_op = "detect"
    /\ fn_in.w = 3 /\ fn_in.h = 2
    /\ fn_arg.sample_size = DefaultSampleSize
    /\ fn_out = RGBOf(PixelAt(fn_in, 0, 1))
    /\ fn_out # RGBOf(PixelAt(fn_in, 0, 0))
    /\ LET s == EdgeSamples(fn_in, DefaultSampleSize)
       IN  /\ CountOf(RGBOf(PixelAt(fn_in, 1, 0)), s) = CountOf(fn_out, s)
           /\ RGBOf(PixelAt(fn_in, 1, 0)) # fn_out

---------------------------------------------------------------------------
(* SpecAlpha: trimming and alpha matting applied to one raster. *)

\* Pixels with alphas at and around 0, the trim threshold 10 and the
\* matting limits 10 and 245.
AlphaPixelChoices ==
    << <<10, 20, 30, 0>>, <<200, 100, 50, 5>>, <<1, 2, 3, 10>>,
       <<90, 170, 180, 11>>, <<255, 128, 1, 128>>, <<0, 255, 127, 244>>,
       <<7, 7, 7, 245>>, <<255, 255, 255, 255>> >>

AlphaInputs ==
    {PatternRasterOf(AlphaPixelChoices, m, w, h, s0, s1) :
        m \in {"RGBA", "RGB"}, w \in 1..MaxW, h \in 1..MaxH,
        s0 \in 0..(Len(AlphaPixelChoices) - 1),
        s1 \in 0..(Len(AlphaPixelChoices) - 1)}

Thresholds == {0, DefaultThreshold, 128}

InitAlpha ==
    /\ MainOff
    /\ fn_op = "init"
    /\ fn_in \in AlphaInputs
    /\ fn_arg = None
    /\ fn_out = None

CallTrim ==
    /\ fn_op = "init"
    /\ \E t \in Thresholds :
        /\ fn_arg' = [threshold |-> t]
        /\ fn_out' = trim_transparent_borders(fn_in, t)
    /\ fn_op' = "trim"
    /\ UNCHANGED <<fn_in, main_vars>>

CallMatting ==
    /\ fn_op = "init"
    /\ fn_arg' = None
    /\ fn_out' = apply_alpha_matting(fn_in)
    /\ fn_op' = "matting"
    /\ UNCHANGED <<fn_in, main_vars>>

NextAlpha == CallTrim \/ CallMatting

SpecAlpha == InitAlpha /\ [][NextAlpha]_vars

\* The bounding box <<left, upper, right, lower>> of the pixels whose
\* alpha is above t, or None.
BBoxAbove(image, t) ==
    LET xs == {x \in 0..(image.w - 1) :
                  \E y \in 0..(image.h - 1) : PixelAt(image, x, y)[4] > t}
        ys == {y \in 0..(image.h - 1) :
                  \E x \in 0..(image.w - 1) : PixelAt(image, x, y)[4] > t}
        lo(S) == CHOOSE v \in S : \A u \in S : v <= u
        hi(S) == CHOOSE v \in S : \A u \in S : v >= u
    IN  IF xs = {} THEN None
        ELSE <<lo(xs), lo(ys), hi(xs) + 1, hi(ys) + 1>>

\* C11: trim_transparent_borders returns the raster cropped to the
\* smallest rectangle holding every pixel whose alpha is above the
\* threshold, and the raster itself when no alpha is above it.
C11_CropsAboveThreshold ==
    fn_op = "trim" =>
        LET im == convert_RGBA(fn_in)
            bbox == BBoxAbove(im, fn_arg.threshold)
        IN  fn_out = IF bbox # None THEN Crop(im, bbox) ELSE im

\* What trim_transparent_borders does: the same with "alpha is not 0",
\* whatever the threshold.
TrimIgnoresThreshold ==
    fn_op = "trim" =>
        LET im == convert_RGBA(fn_in)
            bbox == BBoxAbove(im, 0)
        IN  fn_out = IF bbox # None THEN Crop(im, bbox) ELSE im

\* C14: apply_alpha_matting keeps size and every pixel's RGB; a pixel whose
\* alpha is strictly between 10 and 245 gets the smoothed alpha of its
\* position, every other pixel keeps its alpha.
C14_MattingRule ==
    fn_op = "matting" =>
        LET im == convert_RGBA(fn_in)
            smooth == Computed(SmoothedAlpha(im))
        IN  /\ fn_out.mode = "RGBA" /\ fn_out.w = im.w /\ fn_out.h = im.h
            /\ DOMAIN fn_out.px = DOMAIN im.px
            /\ \A i \in DOMAIN im.px :
                /\ RGBOf(fn_out.px[i]) = RGBOf(im.px[i])
                /\ (10 < im.px[i][4] /\ im.px[i][4] < 245)
                        => fn_out.px[i][4] = smooth[i]
                /\ (im.px[i][4] <= 10 \/ im.px[i][4] >= 245)
                        => fn_out.px[i][4] = im.px[i][4]

\* A raster in which one edge pixel's alpha was replaced by a different
\* smoothed value while a pixel at a limit (10 or 245) kept its alpha
\* although the smoothed value there differs.
C14_Witness ==
    /\ fn_op = "matting"
    /\ fn_in.mode = "RGBA"
    /\ \E i \in DOMAIN fn_in.px :
        /\ 10 < fn_in.px[i][4] /\ fn_in.px[i][4] < 245
        /\ fn_out.px[i][4] # fn_in.px[i][4]
    /\ \E j \in DOMAIN fn_in.px :
        /\ fn_in.px[j][4] \in {10, 245}
        /\ SmoothedAlpha(fn_in)[j] # fn_in.px[j][4]
        /\ fn_out.px[j][4] = fn_in.px[j][4]

---------------------------------------------------------------------------
(* main(): the stages from Image.open to the flutter commands. *)

\* Largest --target-size tried in main().
MaxTarget == 2

DefaultPaddingRatio == <<15, 100>>

\* The source images: a 2 x 2 logo on a white border with a partially
\* transparent pixel, an RGB image, a single opaque pixel, and a fully
\* transparent image.
SourceImages ==
    { [mode |-> "RGBA", w |-> 2, h |-> 2,
       px |-> << <<255, 255, 255, 255>>, <<230, 230, 230, 255>>,
                 <<0, 0, 0, 255>>, <<200, 100, 50, 128>> >>],
      [mode |-> "RGB", w |-> 2, h |-> 1,
       px |-> << <<255, 255, 255>>, <<0, 0, 0>> >>],
      [mode |-> "RGBA", w |-> 1, h |-> 1, px |-> << <<200, 100, 50, 255>> >>],
      [mode |-> "RGBA", w |-> 1, h |-> 2,
       px |-> << <<255, 255, 255, 0>>, <<0, 0, 0, 0>> >>] }

\* <<no_remove_bg, use_rembg, use_color_only>>
ModeFlags == BOOLEAN \X BOOLEAN \X BOOLEAN
MainTargetSizes == 1..MaxTarget
MainPaddings == {0, 1}
MainFactors == {<<1, 1>>, <<1, 2>>}
MainRembgResults(image) ==
    {RembgResult(image, t0, 0, FALSE) : t0 \in {0, 3}}

\* Lines 489-501: which removal the flags select.
BackgroundMode(flags) ==
    IF flags[1] THEN "none"
    ELSE IF flags[2] THEN "model-only"
    ELSE IF flags[3] THEN "color-only"
    ELSE "hybrid"

\* A variant of main()'s control flow in which a failed save is only logged.
NextPcSaveContinues(stage, outcome) ==
    CASE stage = "load" -> IF outcome = "ok" THEN "remove_bg" ELSE "exit1"
      [] stage = "remove_bg" -> "trim"
      [] stage = "trim" -> "matting"
      [] stage = "matting" -> "resize"
      [] stage = "resize" -> IF outcome = "ok" THEN "mkdir" ELSE "exit1"
      [] stage = "mkdir" -> IF outcome = "ok" THEN "save_neutral" ELSE "crash"
      [] stage = "save_neutral" -> "make_light"
      [] stage = "adjust_light" -> IF outcome = "failed" THEN "exit1" ELSE "save_light"
      [] stage = "save_light" -> "make_dark"
      [] stage = "adjust_dark" -> IF outcome = "failed" THEN "exit1" ELSE "save_dark"
      [] stage = "save_dark" -> "apply"
      [] stage = "apply" -> IF outcome = "skipped" THEN "done" ELSE "icons"
      [] stage = "icons" -> IF outcome = "failed" THEN "exit1"
                            ELSE IF outcome = "crashed" THEN "crash" ELSE "splash"
      [] stage = "splash" -> IF outcome = "failed" THEN "exit1"
                             ELSE IF outcome = "crashed" THEN "crash" ELSE "done"

\* A variant of main()'s control flow that smooths before it trims.
NextPcMattingFirst(stage, outcome) ==
    CASE stage = "load" -> IF outcome = "ok" THEN "remove_bg" ELSE "exit1"
      [] stage = "remove_bg" -> "matting"
      [] stage = "matting" -> "trim"
      [] stage = "trim" -> "resize"
      [] stage = "resize" -> IF outcome = "ok" THEN "mkdir" ELSE "exit1"
      [] stage = "mkdir" -> IF outcome = "ok" THEN "save_neutral" ELSE "crash"
      [] stage = "save_neutral" -> IF outcome = "ok" THEN "make_light" ELSE "exit1"
      [] stage = "adjust_light" -> IF outcome = "failed" THEN "exit1" ELSE "save_light"
      [] stage = "save_light" -> IF outcome = "ok" THEN "make_dark" ELSE "exit1"
      [] stage = "adjust_dark" -> IF outcome = "failed" THEN "exit1" ELSE "save_dark"
      [] stage = "save_dark" -> IF outcome = "ok" THEN "apply" ELSE "exit1"
      [] stage = "apply" -> IF outcome = "skipped" THEN "done" ELSE "icons"
      [] stage = "icons" -> IF outcome = "failed" THEN "exit1"
                            ELSE IF outcome = "crashed" THEN "crash" ELSE "splash"
      [] stage = "splash" -> IF outcome = "failed" THEN "exit1"
                             ELSE IF outcome = "crashed" THEN "crash" ELSE "done"

\* A variant of main()'s control flow that goes on to the flutter commands
\* when saving the dark variant failed.
NextPcDarkSaveUnchecked(stage, outcome) ==
    CASE stage = "load" -> IF outcome = "ok" THEN "remove_bg" ELSE "exit1"
      [] stage = "remove_bg" -> "trim"
      [] stage = "trim" -> "matting"
      [] stage = "matting" -> "resize"
      [] stage = "resize" -> IF outcome = "ok" THEN "mkdir" ELSE "exit1"
      [] stage = "mkdir" -> IF outcome = "ok" THEN "save_neutral" ELSE "crash"
      [] stage = "save_neutral" -> IF outcome = "ok" THEN "make_light" ELSE "exit1"
      [] stage = "adjust_light" -> IF outcome = "failed" THEN "exit1" ELSE "save_light"
      [] stage = "save_light" -> IF outcome = "ok" THEN "make_dark" ELSE "exit1"
      [] stage = "adjust_dark" -> IF outcome = "failed" THEN "exit1" ELSE "save_dark"
      [] stage = "save_dark" -> "apply"
      [] stage = "apply" -> IF outcome = "skipped" THEN "done" ELSE "icons"
      [] stage = "icons" -> IF outcome = "failed" THEN "exit1"
                            ELSE IF outcome = "crashed" THEN "crash" ELSE "splash"
      [] stage = "splash" -> IF outcome = "failed" THEN "exit1"
                             ELSE IF outcome = "crashed" THEN "crash" ELSE "done"

\* main()'s control flow: the statement that runs after a stage, by the
\* stage's outcome ("ok", "failed": it raised, "skipped": its flag was set).
NextPc(stage, outcome) ==
    CASE stage = "load" -> IF outcome = "ok" THEN "remove_bg" ELSE "exit1"
      [] stage = "remove_bg" -> "trim"
      [] stage = "trim" -> "matting"
      [] stage = "matting" -> "resize"
      [] stage = "resize" -> IF outcome = "ok" THEN "mkdir" ELSE "exit1"
      [] stage = "mkdir" -> IF outcome = "ok" THEN "save_neutral" ELSE "crash"
      [] stage = "save_neutral" -> IF outcome = "ok" THEN "make_light" ELSE "exit1"
      [] stage = "adjust_light" -> IF outcome = "failed" THEN "exit1" ELSE "save_light"
      [] stage = "save_light" -> IF outcome = "ok" THEN "make_dark" ELSE "exit1"
      [] stage = "adjust_dark" -> IF outcome = "failed" THEN "exit1" ELSE "save_dark"
      [] stage = "save_dark" -> IF outcome = "ok" THEN "apply" ELSE "exit1"
      [] stage = "apply" -> IF outcome = "skipped" THEN "done" ELSE "icons"
      [] stage = "icons" -> IF outcome = "failed" THEN "exit1"
                            ELSE IF outcome = "crashed" THEN "crash" ELSE "splash"
      [] stage = "splash" -> IF outcome = "failed" THEN "exit1"
                             ELSE IF outcome = "crashed" THEN "crash" ELSE "done"

Event(stage, outcome) == [stage |-> stage, outcome |-> outcome]

\* A variant of img.copy() that hands back the same object.
ImageAliasRef(h, ref) == ref

\* img.copy(): the reference of the new object, the next free one.
ImageCopyRef(h, ref) == Len(h) + 1

\* An object's pixels replaced in place.
InPlace(h, ref, image) == [h EXCEPT ![ref] = image]

\* A function that converts a non-RGBA argument first works on the
\* converted copy, a new object; an RGBA argument is changed in place.
\* The heap and the reference returned.
InPlaceOrConverted(h, ref, image) ==
    IF h[ref].mode = "RGBA"
    THEN [heap |-> InPlace(h, ref, image), ref |-> ref]
    ELSE [heap |-> Append(h, image), ref |-> Len(h) + 1]

\* What a failed Image.save may leave at a path: the file as it was (the
\* failure came before the file was opened), a truncated file (it was
\* opened for writing and the encoder raised), or no file (Pillow removes
\* a file it created itself).
SaveFailOutcomes(prev) ==
    {prev, [kind |-> "truncated"]}
        \cup (IF prev.kind = "absent" THEN {[kind |-> "absent"]} ELSE {})

InitMain ==
    /\ fn_op = "off" /\ fn_in = None /\ fn_arg = None /\ fn_out = None
    /\ pc = "load"
    /\ source \in SourceImages
    /\ heap = <<>>
    /\ img = 0 /\ light_img = 0 /\ dark_img = 0
    /\ \E k \in {"absent", "old"} : files = [p \in Paths |-> [kind |-> k]]
    /\ tools = <<>>
    /\ args = NoArgs
    /\ hist = <<>>
    /\ pre = None
    /\ base = None
    /\ rembg_calls = 0

\* Lines 481-486.
Load ==
    /\ pc = "load"
    /\ \/ /\ heap' = <<source>>
          /\ img' = 1
          /\ pc' = NextPc("load", "ok")
       \/ /\ pc' = NextPc("load", "failed")
          /\ UNCHANGED <<heap, img>>
    /\ UNCHANGED <<fn_vars, source, light_img, dark_img, files, tools, args,
                   hist, pre, base, rembg_calls>>

\* --no-remove-bg.
RemoveBgSkipped(flags) ==
    /\ BackgroundMode(flags) = "none"
    /\ hist' = Append(hist, Event("remove_bg", "skipped"))
    /\ UNCHANGED <<heap, img, rembg_calls>>

\* --use-rembg: img = remove(img), or remove raises.
RemoveBgModelOnly(flags) ==
    /\ BackgroundMode(flags) = "model-only"
    /\ rembg_calls' = rembg_calls + 1
    /\ \/ \E r \in MainRembgResults(heap[img]) :
            /\ heap' = Append(heap, r)
            /\ img' = Len(heap) + 1
            /\ hist' = Append(hist, Event("remove_bg", "ok"))
       \/ /\ hist' = Append(hist, Event("remove_bg", "failed"))
          /\ UNCHANGED <<heap, img>>

\* --use-color-only: remove_background_by_color changes an RGBA img in
\* place; when it raises after k pixels of its loop, those stay changed.
RemoveBgColorOnly(flags) ==
    /\ BackgroundMode(flags) = "color-only"
    /\ UNCHANGED rembg_calls
    /\ LET im == convert_RGBA(heap[img])
           bg == detect_edge_color(im, DefaultSampleSize)
       IN  \/ LET r == InPlaceOrConverted(heap, img,
                          remove_background_by_color(heap[img], None, DefaultTolerance))
              IN  /\ heap' = r.heap
                  /\ img' = r.ref
                  /\ hist' = Append(hist, Event("remove_bg", "ok"))
           \/ \E k \in 0..NPix(im) :
                /\ heap' = InPlaceOrConverted(heap, img,
                              color_loop(im, bg, DefaultTolerance, k)).heap
                /\ img' = img
                /\ hist' = Append(hist, Event("remove_bg", "failed"))

\* A variant of the hybrid removal that asks the model a second time.
RemoveBgHybridTwice(flags) ==
    /\ BackgroundMode(flags) = "hybrid"
    /\ \/ \E r \in MainRembgResults(heap[img]) :
            /\ heap' = Append(heap, remove_background_hybrid(heap[img], r, DefaultTolerance))
            /\ img' = Len(heap) + 1
            /\ rembg_calls' = rembg_calls + 2
            /\ hist' = Append(hist, Event("remove_bg", "ok"))
       \/ \E called \in {TRUE} \cup {heap[img].mode = "RGBA"} :
            /\ rembg_calls' = rembg_calls + (IF called THEN 1 ELSE 0)
            /\ hist' = Append(hist, Event("remove_bg", "failed"))
            /\ UNCHANGED <<heap, img>>

\* The default: remove_background_hybrid builds its result in a copy.  It
\* may raise in remove(img) or after it, and for an input that is not RGBA
\* already in the conversion of line 144, before the model is called.
RemoveBgHybrid(flags) ==
    /\ BackgroundMode(flags) = "hybrid"
    /\ \/ \E r \in MainRembgResults(heap[img]) :
            /\ heap' = Append(heap, remove_background_hybrid(heap[img], r, DefaultTolerance))
            /\ img' = Len(heap) + 1
            /\ rembg_calls' = rembg_calls + 1
            /\ hist' = Append(hist, Event("remove_bg", "ok"))
       \/ \E called \in {TRUE} \cup {heap[img].mode = "RGBA"} :
            /\ rembg_calls' = rembg_calls + (IF called THEN 1 ELSE 0)
            /\ hist' = Append(hist, Event("remove_bg", "failed"))
            /\ UNCHANGED <<heap, img>>

\* Lines 488-507.
RemoveBackground ==
    /\ pc = "remove_bg"
    /\ \E flags \in ModeFlags :
        /\ args' = [args EXCEPT !.mode = BackgroundMode(flags)]
        /\ \/ RemoveBgSkipped(flags)
           \/ RemoveBgModelOnly(flags)
           \/ RemoveBgColorOnly(flags)
           \/ RemoveBgHybrid(flags)
    /\ pre' = heap[img]
    /\ pc' = NextPc("remove_bg", hist'[Len(hist')].outcome)
    /\ UNCHANGED <<fn_vars, source, light_img, dark_img, files, tools, base>>

\* Lines 509-515.
Trim ==
    /\ pc = "trim"
    /\ \E no_trim \in BOOLEAN :
        \/ /\ no_trim
           /\ hist' = Append(hist, Event("trim", "skipped"))
           /\ UNCHANGED <<heap, img>>
        \/ /\ ~no_trim
           /\ IF heap[img].mode = "RGBA" /\ AlphaBBox(heap[img]) = None
              THEN UNCHANGED <<heap, img>>
              ELSE /\ heap' = Append(heap, trim_transparent_borders(heap[img], DefaultThreshold))
                   /\ img' = Len(heap) + 1
           /\ hist' = Append(hist, Event("trim", "ok"))
        \/ /\ ~no_trim
           /\ hist' = Append(hist, Event("trim", "failed"))
           /\ UNCHANGED <<heap, img>>
    /\ pre' = heap[img]
    /\ pc' = NextPc("trim", hist'[Len(hist')].outcome)
    /\ UNCHANGED <<fn_vars, source, light_img, dark_img, files, tools, args,
                   base, rembg_calls>>

\* Lines 517-523.
Matting ==
    /\ pc = "matting"
    /\ \E no_alpha_matting \in BOOLEAN :
        \/ /\ no_alpha_matting
           /\ hist' = Append(hist, Event("matting", "skipped"))
           /\ UNCHANGED <<heap, img>>
        \/ /\ ~no_alpha_matting
           /\ heap' = Append(heap, apply_alpha_matting(heap[img]))
           /\ img' = Len(heap) + 1
           /\ hist' = Append(hist, Event("matting", "ok"))
        \/ /\ ~no_alpha_matting
           /\ hist' = Append(hist, Event("matting", "failed"))
           /\ UNCHANGED <<heap, img>>
    /\ pre' = heap[img]
    /\ pc' = NextPc("matting", hist'[Len(hist')].outcome)
    /\ UNCHANGED <<fn_vars, source, light_img, dark_img, files, tools, args,
                   base, rembg_calls>>

\* Lines 525-531.
Resize ==
    /\ pc = "resize"
    /\ \E S \in MainTargetSizes, padding \in MainPaddings :
        LET ratio == IF padding # 0 THEN <<padding, S>> ELSE DefaultPaddingRatio
            g == resize_geometry(heap[img].w, heap[img].h, S, ratio)
        IN  /\ args' = [args EXCEPT !.target_size = S, !.padding = padding]
            /\ \/ /\ g.ok
                  /\ heap' = Append(heap, resize_image(heap[img], g))
                  /\ img' = Len(heap) + 1
                  /\ base' = resize_image(heap[img], g)
                  /\ hist' = Append(hist, Event("resize", "ok"))
               \/ \* resize_image raises: always for a scaled side below 1,
                  \* and whenever a call inside it does
                  /\ hist' = Append(hist, Event("resize", "failed"))
                  /\ UNCHANGED <<heap, img, base>>
    /\ pre' = heap[img]
    /\ pc' = NextPc("resize", hist'[Len(hist')].outcome)
    /\ UNCHANGED <<fn_vars, source, light_img, dark_img, files, tools, rembg_calls>>

\* Line 534, outside every try block.
MakeOutputDir ==
    /\ pc = "mkdir"
    /\ \E outcome \in {"ok", "failed"} : pc' = NextPc("mkdir", outcome)
    /\ UNCHANGED <<fn_vars, source, heap, img, light_img, dark_img, files, tools,
                   args, hist, pre, base, rembg_calls>>

\* image.save(path) inside the try block of lines 542-567.
Save(stage, path, ref) ==
    /\ pc = stage
    /\ \/ /\ files' = [files EXCEPT ![path] = [kind |-> "image", data |-> heap[ref]]]
          /\ hist' = Append(hist, Event(stage, "ok"))
       \/ /\ \E f \in SaveFailOutcomes(files[path]) : files' = [files EXCEPT ![path] = f]
          /\ hist' = Append(hist, Event(stage, "failed"))
    /\ pre' = heap[img]
    /\ pc' = NextPc(stage, hist'[Len(hist')].outcome)
    /\ UNCHANGED <<fn_vars, source, heap, img, light_img, dark_img, tools, args,
                   base, rembg_calls>>

SaveNeutral == Save("save_neutral", "neutral", img)
SaveLight == Save("save_light", "light", light_img)
SaveDark == Save("save_dark", "dark", dark_img)

\* copy = img.copy(); if factor != 1.0: copy = adjust_brightness(copy, factor):
\* the heap afterwards.
CopyAndAdjust(h, ref, factor) ==
    LET copy == ImageCopyRef(h, ref)
        h1 == Append(h, h[ref])
    IN  IF factor[1] # factor[2]
        THEN InPlaceOrConverted(h1, copy, adjust_brightness(h1[copy], factor)).heap
        ELSE h1

\* Lines 548-551, inside the try block of line 542: the copy, and for a
\* factor other than 1.0 the adjustment of the copy in place; either may
\* raise, the adjustment after any number of pixels.
MakeLight ==
    /\ pc = "make_light"
    /\ \E f \in MainFactors :
        /\ args' = [args EXCEPT !.brightness_light = f]
        /\ \/ /\ light_img' = ImageCopyRef(heap, img)
              /\ heap' = CopyAndAdjust(heap, img, f)
              /\ hist' = Append(hist, Event("adjust_light",
                                            IF f[1] # f[2] THEN "ok" ELSE "skipped"))
           \/ /\ UNCHANGED <<heap, light_img>>
              /\ hist' = Append(hist, Event("adjust_light", "failed"))
           \/ /\ f[1] # f[2]
              /\ light_img' = ImageCopyRef(heap, img)
              /\ \E k \in 0..NPix(heap[img]) :
                    heap' = InPlace(Append(heap, heap[img]), light_img',
                                    adjust_loop(heap[img], f, k))
              /\ hist' = Append(hist, Event("adjust_light", "failed"))
    /\ pre' = heap[img]
    /\ pc' = NextPc("adjust_light", hist'[Len(hist')].outcome)
    /\ UNCHANGED <<fn_vars, source, img, dark_img, files, tools, base, rembg_calls>>

\* Lines 557-560, inside the try block of line 542: the copy, and for a
\* factor other than 1.0 the adjustment of the copy in place; either may
\* raise, the adjustment after any number of pixels.
MakeDark ==
    /\ pc = "make_dark"
    /\ \E f \in MainFactors :
        /\ args' = [args EXCEPT !.brightness_dark = f]
        /\ \/ /\ dark_img' = ImageCopyRef(heap, img)
              /\ heap' = CopyAndAdjust(heap, img, f)
              /\ hist' = Append(hist, Event("adjust_dark",
                                            IF f[1] # f[2] THEN "ok" ELSE "skipped"))
           \/ /\ UNCHANGED <<heap, dark_img>>
              /\ hist' = Append(hist, Event("adjust_dark", "failed"))
           \/ /\ f[1] # f[2]
              /\ dark_img' = ImageCopyRef(heap, img)
              /\ \E k \in 0..NPix(heap[img]) :
                    heap' = InPlace(Append(heap, heap[img]), dark_img',
                                    adjust_loop(heap[img], f, k))
              /\ hist' = Append(hist, Event("adjust_dark", "failed"))
    /\ pre' = heap[img]
    /\ pc' = NextPc("adjust_dark", hist'[Len(hist')].outcome)
    /\ UNCHANGED <<fn_vars, source, img, light_img, files, tools, base, rembg_calls>>

\* Lines 569-571.
Apply ==
    /\ pc = "apply"
    /\ \E no_apply \in BOOLEAN :
        pc' = NextPc("apply", IF no_apply THEN "skipped" ELSE "ok")
    /\ UNCHANGED <<fn_vars, source, heap, img, light_img, dark_img, files, tools,
                   args, hist, pre, base, rembg_calls>>

\* run_flutter_command: the command runs unless flutter is not on the PATH
\* or subprocess.run cannot start it; only CalledProcessError is caught, so
\* the latter leaves main() as an uncaught exception.
FlutterCommand(stage, name) ==
    /\ pc = stage
    /\ \/ /\ pc' = NextPc(stage, "skipped")
          /\ UNCHANGED tools
       \/ \E outcome \in {"ok", "failed"} :
            /\ tools' = Append(tools, name)
            /\ pc' = NextPc(stage, outcome)
       \/ \E outcome \in {"failed", "crashed"} :
            /\ pc' = NextPc(stage, outcome)
            /\ UNCHANGED tools
    /\ UNCHANGED <<fn_vars, source, heap, img, light_img, dark_img, files, args,
                   hist, pre, base, rembg_calls>>

Icons == FlutterCommand("icons", "flutter_launcher_icons")
Splash == FlutterCommand("splash", "flutter_native_splash:create")

Next ==
    \/ Load
    \/ RemoveBackground
    \/ Trim
    \/ Matting
    \/ Resize
    \/ MakeOutputDir
    \/ SaveNeutral
    \/ MakeLight
    \/ SaveLight
    \/ MakeDark
    \/ SaveDark
    \/ Apply
    \/ Icons
    \/ Splash

Spec == InitMain /\ [][Next]_vars

---------------------------------------------------------------------------
(* Properties of main(). *)

FatalStages == {"resize", "save_neutral", "save_light", "save_dark"}
EndStates == {"done", "exit1", "crash"}

LastEvent == hist[Len(hist)]

HasEvent(stage, outcome) ==
    \E i \in DOMAIN hist : hist[i] = Event(stage, outcome)

\* C3: when background removal fails, the run goes on to trimming with an
\* image pixel-for-pixel equal to the one that was loaded.
C3_ContinuesWithOriginal ==
    (pc = "trim" /\ HasEvent("remove_bg", "failed")) => heap[img] = source

\* C4: a failed trim or matting only skips that stage, and the next stage
\* starts with the image as it was before; a failed resize or save is the
\* last thing the run does, it ends with exit status 1 and no flutter tool
\* has been or will be invoked.
C4_FailureHandling ==
    /\ (hist # <<>> /\ LastEvent = Event("trim", "failed"))
            => (pc = "matting" /\ heap[img] = pre)
    /\ (hist # <<>> /\ LastEvent = Event("matting", "failed"))
            => (pc = "resize" /\ heap[img] = pre)
    /\ \A i \in DOMAIN hist :
            (hist[i].stage \in FatalStages /\ hist[i].outcome = "failed")
                => (i = Len(hist) /\ pc = "exit1" /\ tools = <<>>)

\* A run in which trimming failed, was skipped over, and a later save
\* failed and ended the run.
C4_Witness ==
    /\ pc = "exit1"
    /\ HasEvent("trim", "failed")
    /\ HasEvent("matting", "ok")
    /\ LastEvent = Event("save_light", "failed")

\* C5: when a run has ended, no destination path holds a truncated file.
C5_NoTruncatedFile ==
    pc \in EndStates => \A p \in Paths : files[p].kind # "truncated"

\* The place of a stage in the order the specification gives: alpha
\* smoothing before trimming.
ClaimedRank(stage) ==
    CASE stage = "remove_bg" -> 1
      [] stage = "matting" -> 2
      [] stage = "trim" -> 3
      [] stage = "resize" -> 4
      [] OTHER -> 5

\* C6 as stated: the stages that ran did so in the order background
\* removal, alpha smoothing, trimming, canvas composition, tone adjustment.
C6_MattingBeforeTrim ==
    \A i, j \in DOMAIN hist :
        (i < j /\ hist[i].outcome = "ok" /\ hist[j].outcome = "ok")
            => ClaimedRank(hist[i].stage) <= ClaimedRank(hist[j].stage)

\* The place of a stage in main().
StageRank(stage) ==
    CASE stage = "remove_bg" -> 1
      [] stage = "trim" -> 2
      [] stage = "matting" -> 3
      [] stage = "resize" -> 4
      [] stage = "save_neutral" -> 5
      [] stage = "adjust_light" -> 6
      [] stage = "save_light" -> 7
      [] stage = "adjust_dark" -> 8
      [] stage = "save_dark" -> 9

\* C6, amended: the stages are reached in the order background removal,
\* trimming, alpha smoothing, canvas composition, neutral save, light tone
\* adjustment and save, dark tone adjustment and save; none is reached
\* twice, and trimming comes before alpha smoothing.
C6_StageOrder ==
    \A i, j \in DOMAIN hist :
        i < j => StageRank(hist[i].stage) < StageRank(hist[j].stage)

\* A run in which trimming, smoothing, composition and both tone
\* adjustments all ran.
C6_Witness ==
    /\ Len(hist) = 9
    /\ hist[2] = Event("trim", "ok")
    /\ hist[3] = Event("matting", "ok")
    /\ hist[4] = Event("resize", "ok")
    /\ hist[6] = Event("adjust_light", "ok")
    /\ hist[8] = Event("adjust_dark", "ok")

\* Lines 549-550, 558-559: the adjustment is skipped for factor 1.0.
Toned(image, factor) ==
    IF factor[1] # factor[2] THEN adjust_brightness(image, factor) ELSE image

FileHolds(path, image) ==
    files[path].kind = "image" => files[path].data = image

\* C7: once the canvas is composed, img keeps referring to that raster and
\* the neutral file holds it; the light and dark variants are objects of
\* their own, each, unless its adjustment raised, equal to the base adjusted
\* with its own factor, and so are the files saved from them.
C7_NoSharedMutation ==
    base # None =>
        /\ heap[img] = base
        /\ FileHolds("neutral", base)
        /\ light_img # 0 =>
            /\ light_img # img
            /\ ~HasEvent("adjust_light", "failed")
                    => heap[light_img] = Toned(base, args.brightness_light)
            /\ FileHolds("light", Toned(base, args.brightness_light))
        /\ dark_img # 0 =>
            /\ dark_img \notin {img, light_img}
            /\ ~HasEvent("adjust_dark", "failed")
                    => heap[dark_img] = Toned(base, args.brightness_dark)
            /\ FileHolds("dark", Toned(base, args.brightness_dark))

\* Both variants were adjusted and saved, and the adjustment changes the
\* base.
C7_Witness ==
    /\ pc = "done"
    /\ args.brightness_light = <<1, 2>>
    /\ args.brightness_dark = <<1, 2>>
    /\ files["dark"].kind = "image"
    /\ files["light"].kind = "image"
    /\ files["dark"].data # base

\* C13: whenever a flutter tool is about to run or has run, each of the
\* three paths holds an RGBA raster of target size x target size, written
\* by a save of this run that succeeded.
C13_ToolsAfterFiles ==
    (pc \in {"icons", "splash"} \/ tools # <<>>) =>
        /\ HasEvent("save_neutral", "ok")
        /\ HasEvent("save_light", "ok")
        /\ HasEvent("save_dark", "ok")
        /\ \A p \in Paths :
            /\ files[p].kind = "image"
            /\ files[p].data.mode = "RGBA"
            /\ files[p].data.w = args.target_size
            /\ files[p].data.h = args.target_size

\* Both tools ran, over files that existed before the run and were
\* replaced by it.
C13_Witness ==
    /\ pc = "done"
    /\ tools = <<"flutter_launcher_icons", "flutter_native_splash:create">>
    /\ args.target_size = 2
    /\ \A p \in Paths : files[p].kind = "image"

Modes == {"hybrid", "model-only", "color-only", "none"}

\* The removal stage is over.
RemovalDone == hist # <<>>

\* What holds of the mode and the model in both readings of C15: every flag
\* combination selects one of the four modes, the model is called at most
\* once, never before the removal stage, never in color-only mode or when
\* removal is skipped, and once in model-only mode.
ModeAndCallsCommon ==
    /\ \A flags \in ModeFlags : BackgroundMode(flags) \in Modes
    /\ rembg_calls <= 1
    /\ ~RemovalDone => rembg_calls = 0
    /\ RemovalDone =>
        /\ args.mode \in Modes
        /\ args.mode \in {"color-only", "none"} => rembg_calls = 0
        /\ args.mode = "model-only" => rembg_calls = 1

\* C15 as stated: in hybrid mode, too, the model is called exactly once.
C15_ExactlyOnceInHybrid ==
    /\ ModeAndCallsCommon
    /\ (RemovalDone /\ args.mode = "hybrid") => rembg_calls = 1

\* C15, amended: in hybrid mode the model is called once, except in a run
\* whose input is not RGBA and whose removal stage failed, where it may not
\* have been called at all.
C15_AtMostOnce ==
    /\ ModeAndCallsCommon
    /\ (RemovalDone /\ args.mode = "hybrid") =>
        \/ rembg_calls = 1
        \/ /\ rembg_calls = 0
           /\ source.mode # "RGBA"
           /\ hist[1] = Event("remove_bg", "failed")

\* A hybrid run on an RGB input whose conversion failed: the model was not
\* called and the run went on to trimming.
C15_Witness ==
    /\ pc = "trim"
    /\ args.mode = "hybrid"
    /\ source.mode = "RGB"
    /\ hist = <<Event("remove_bg", "failed")>>
    /\ rembg_calls = 0

===========================================================================
